---- MODULE Spec2Model ----
(***************************************************************************)
(* NutterCLI.run (cli/nuttercli.py) and read_job_cluster_config            *)
(* (common/clustermanager.py) as a state machine.                          *)
(*                                                                         *)
(* One run of the command is modelled from its entry to the process exit.  *)
(* Strings that the code only tests for truthiness are "None" or a name;   *)
(* optional dictionaries are tagged records; test_pattern is a sequence of *)
(* characters because the code splits it.                                  *)
(***************************************************************************)
EXTENDS Integers, Sequences, FiniteSets, TLC

VARIABLES
    test_pattern,       \* argument of run
    cluster_id,         \* argument of run: "None" or an id
    cluster_conf_path,  \* argument of run: "None" or a path
    cluster_type,       \* argument of run: "None" or a type name
    cluster_config,     \* argument of run: optional dict
    junit_report,       \* argument of run
    tags_report,        \* argument of run
    fs,                 \* the file system: path -> parsed JSON file
    discovered,         \* number of test notebooks the pattern matches
    pc,                 \* position in run
    hr,                 \* index of the next statement of _handle_results
    cluster_conf,       \* local of run: optional dict
    results,            \* the batch handed to _handle_results
    dispatch_calls,     \* calls made to run_tests / run_test, in order
    wait_calls,         \* returned calls of events_processor_wait
    displayed,          \* _display_test_results has run
    parse_calls,        \* calls of api.to_testresults
    report_added,       \* report_manager.add_result calls, in order
    warnings,           \* notebook paths named by a printed warning, in order
    write_calls,        \* calls of report_manager.write
    report_calls,       \* returned calls of _handle_reports
    files_written,      \* report files written
    validate_calls,     \* calls of ExecutionResultsValidator.validate
    summary,            \* the ValidationSummary of the last validate
    exit_status         \* process exit status, -1 while running

argvars == <<test_pattern, cluster_id, cluster_conf_path, cluster_type,
             cluster_config, junit_report, tags_report, fs, discovered>>
reportvars == <<parse_calls, report_added, warnings, write_calls, files_written,
                report_calls>>
vars == <<test_pattern, cluster_id, cluster_conf_path, cluster_type,
          cluster_config, junit_report, tags_report, fs, discovered,
          pc, hr, cluster_conf, results, dispatch_calls, wait_calls, displayed,
          parse_calls, report_added, warnings, write_calls, files_written,
          report_calls, validate_calls, summary, exit_status>>

----------------------------------------------------------------------------
(* Bounds *)

MaxTests == 2
MaxVal == 3
MaxPatternLen == 5

----------------------------------------------------------------------------
(* Values *)

None == "None"

\* Python's bool() of an optional string
bool(s) == s # None /\ s # ""

\* Optional dictionaries: Python None or a dict (a function on its keys)
NoneDict == [is_none |-> TRUE]
SomeDict(d) == [is_none |-> FALSE, val |-> d]

\* Python's bool() of an optional dict
bool_dict(o) == (~o.is_none) /\ DOMAIN o.val # {}

EmptyDict == [k \in {} |-> 0]
Keys == {"a", "b"}
Vals == 1..MaxVal
Dicts == UNION {[D -> Vals] : D \in SUBSET Keys}

\* dict.update: the argument's entries replace the receiver's
dict_update_keep_base(base, other) ==
    [k \in DOMAIN base \cup DOMAIN other |->
        IF k \in DOMAIN base THEN base[k] ELSE other[k]]

dict_update(base, other) ==
    [k \in DOMAIN base \cup DOMAIN other |->
        IF k \in DOMAIN other THEN other[k] ELSE base[k]]

----------------------------------------------------------------------------
(* common/clustermanager.py *)

\* A path that os.path.exists rejects
MissingFile == [exists |-> FALSE]

\* A parsed JSON config file. has_base / has_cluster_configs say whether the
\* key is present; cluster_configs maps the stored cluster types to overlays.
ConfigFile(has_base, base, has_cc, cc) ==
    [exists |-> TRUE, has_base |-> has_base, base_config |-> base,
     has_cluster_configs |-> has_cc, cluster_configs |-> cc]

\* config.get('base_config', None)
config_get_base(config) ==
    IF config.has_base THEN SomeDict(config.base_config) ELSE NoneDict

Raised(e) == [raised |-> TRUE, error |-> e]
Returned(v) == [raised |-> FALSE, value |-> v]

read_job_cluster_config(files, path_to_config, type) ==
    IF files[path_to_config].exists
    THEN LET config == files[path_to_config]
             base_config == config_get_base(config)
         IN IF bool_dict(base_config)
            THEN IF config.has_cluster_configs
                 THEN IF type \in DOMAIN config.cluster_configs
                      THEN Returned(dict_update(base_config.val,
                                                config.cluster_configs[type]))
                      \* the exception is constructed and dropped, not raised
                      ELSE Returned(base_config.val)
                 ELSE Returned(base_config.val)
            ELSE Raised("ClusterConfigException")
    ELSE Raised("ClusterConfigException")

----------------------------------------------------------------------------
(* common/api.py, cli/reportsman.py, cli/resultsvalidator.py: collaborators *)
(* of the CLI whose contracts the specification gives                       *)

\* The recognised test prefix, two characters long here
TestPrefix == <<"t", "_">>

\* api.TestNotebook._is_valid_test_name: the name begins with the test prefix
_is_valid_test_name(name) ==
    /\ Len(name) >= Len(TestPrefix)
    /\ SubSeq(name, 1, Len(TestPrefix)) = TestPrefix

\* api.to_testresults: None when exit_output is missing or does not
\* deserialize, the structured payload otherwise
to_testresults(exit_output) ==
    IF exit_output = None \/ exit_output = ""
    THEN [is_none |-> TRUE]
    ELSE IF exit_output = "garbage"
         THEN [is_none |-> TRUE]
         ELSE [is_none |-> FALSE, val |-> <<"TestResults", exit_output>>]

\* ReportWriters flags
JUNIT == 1
TAGS == 2

\* reports.get_report_writer_manager(writers): the providers the flags select
get_report_writer_manager(writers) ==
    (IF writers \in {JUNIT, JUNIT + TAGS} THEN {"junit"} ELSE {})
        \cup (IF writers \in {TAGS, JUNIT + TAGS} THEN {"tags"} ELSE {})

has_providers(report_manager) == report_manager # {}

\* report_manager.write(): one file per provider
report_manager_write(report_manager) ==
    {<<"report", provider>> : provider \in report_manager}

RECURSIVE count_outcome(_, _)
count_outcome(rs, outcomes) ==
    IF rs = <<>> THEN 0
    ELSE (IF Head(rs).outcome \in outcomes THEN 1 ELSE 0)
            + count_outcome(Tail(rs), outcomes)

\* ExecutionResultsValidator.validate: computes the summary and signals
\* overall failure (raises) when some result is not PASSED
validate(rs) ==
    LET s == [total   |-> Len(rs),
              passed  |-> count_outcome(rs, {"PASSED"}),
              failed  |-> count_outcome(rs, {"FAILED"}),
              errored |-> count_outcome(rs, {"ERRORED", "TIMEDOUT"})]
    IN [raised |-> s.passed # s.total, value |-> s]

NoSummary == [total |-> 0, passed |-> 0, failed |-> 0, errored |-> 0]

\* What one finished test can look like: its outcome and its exit_output
ResultKinds ==
    {[outcome |-> "PASSED",   exit_output |-> "payload"],
     [outcome |-> "PASSED",   exit_output |-> "garbage"],
     [outcome |-> "FAILED",   exit_output |-> "payload"],
     [outcome |-> "FAILED",   exit_output |-> "garbage"],
     [outcome |-> "ERRORED",  exit_output |-> None],
     [outcome |-> "TIMEDOUT", exit_output |-> None]}

\* An ExecuteNotebookResult; notebook paths are numbered in discovery order
ExecutionResult(path, kind) ==
    [notebook_path |-> path, outcome |-> kind.outcome,
     exit_output |-> kind.exit_output]

\* The batches run_tests can return for n discovered tests: one result per
\* test, in discovery order
Batches(n) ==
    {[i \in 1..n |-> ExecutionResult(i, k[i])] : k \in [1..n -> ResultKinds]}

----------------------------------------------------------------------------
(* cli/nuttercli.py *)

\* str.split(sep): always at least one segment
RECURSIVE split(_, _)
split(s, sep) ==
    IF \E i \in 1..Len(s) : s[i] = sep
    THEN LET i == CHOOSE j \in 1..Len(s) :
                    s[j] = sep /\ \A k \in 1..(j - 1) : s[k] # sep
         IN <<SubSeq(s, 1, i - 1)>> \o split(SubSeq(s, i + 1, Len(s)), sep)
    ELSE <<s>>

_is_a_test_pattern_first_segment(pattern) ==
    LET segments == split(pattern, "/")
    IN IF Len(segments) > 0
       THEN LET search_pattern == segments[1]
            IN IF _is_valid_test_name(search_pattern)
               THEN Returned(FALSE)
               ELSE Returned(TRUE)
       ELSE Raised("AttributeError")

\* NutterCLI._is_a_test_pattern
_is_a_test_pattern(pattern) ==
    LET segments == split(pattern, "/")
    IN IF Len(segments) > 0
       THEN LET search_pattern == segments[Len(segments)]
            IN IF _is_valid_test_name(search_pattern)
               THEN Returned(FALSE)
               ELSE Returned(TRUE)
       \* logging.Fatal does not exist: the call raises
       ELSE Raised("AttributeError")

\* NutterCLI._get_report_writer_manager
_get_report_writer_manager_default_junit(junit, tags) ==
    LET writers0 == JUNIT
        writers1 == IF junit THEN JUNIT ELSE writers0
        writers2 == IF tags THEN writers1 + TAGS ELSE writers1
    IN get_report_writer_manager(writers2)

_get_report_writer_manager(junit, tags) ==
    LET writers0 == 0
        writers1 == IF junit THEN JUNIT ELSE writers0
        writers2 == IF tags THEN writers1 + TAGS ELSE writers1
    IN get_report_writer_manager(writers2)

NoReportEffect == [parse_calls |-> 0, added |-> <<>>, warnings |-> <<>>,
                   write_calls |-> 0, files |-> {}]

\* The for loop of _handle_reports over exec_results
RECURSIVE _handle_reports_loop_stop_at_invalid(_, _)
_handle_reports_loop_stop_at_invalid(exec_results, acc) ==
    IF exec_results = <<>> THEN acc
    ELSE LET exec_result == Head(exec_results)
             t_result == to_testresults(exec_result.exit_output)
         IN IF t_result.is_none
            THEN [acc EXCEPT !.parse_calls = @ + 1,
                             !.warnings = Append(@, exec_result.notebook_path)]
            ELSE _handle_reports_loop_stop_at_invalid(Tail(exec_results),
                    [acc EXCEPT !.parse_calls = @ + 1,
                                !.added = Append(@,
                                    [notebook_path |-> exec_result.notebook_path,
                                     t_result |-> t_result.val])])

RECURSIVE _handle_reports_loop(_, _)
_handle_reports_loop(exec_results, acc) ==
    IF exec_results = <<>> THEN acc
    ELSE LET exec_result == Head(exec_results)
             t_result == to_testresults(exec_result.exit_output)
         IN IF t_result.is_none
            THEN _handle_reports_loop(Tail(exec_results),
                    [acc EXCEPT !.parse_calls = @ + 1,
                                !.warnings = Append(@, exec_result.notebook_path)])
            ELSE _handle_reports_loop(Tail(exec_results),
                    [acc EXCEPT !.parse_calls = @ + 1,
                                !.added = Append(@,
                                    [notebook_path |-> exec_result.notebook_path,
                                     t_result |-> t_result.val])])

\* NutterCLI._handle_reports: its effect on the report manager and the console
_handle_reports(report_manager, exec_results) ==
    IF ~has_providers(report_manager)
    THEN NoReportEffect
    ELSE LET after == _handle_reports_loop(exec_results, NoReportEffect)
         IN [after EXCEPT !.write_calls = 1,
                          !.files = report_manager_write(report_manager)]

\* The statements of NutterCLI._handle_results, in order
_handle_results_no_validate == <<"display", "reports">>

_handle_results_validate_first == <<"validate", "display", "reports">>

_handle_results == <<"display", "reports", "validate">>

\* NutterCLI.run, cluster selector resolution: the cluster_conf local, or the
\* exception raised on the way
resolve_cluster_conf_no_argument_check(files, id, path, type, config) ==
    IF config.is_none
    THEN IF bool(path)
         THEN LET r == read_job_cluster_config(files, path, type)
              IN IF r.raised THEN r ELSE Returned(SomeDict(r.value))
         ELSE Returned(NoneDict)
    ELSE Returned(config)

resolve_cluster_conf(files, id, path, type, config) ==
    IF ~bool(path) /\ ~bool(id) /\ ~bool_dict(config)
    THEN Raised("NotEnoughArguments")
    ELSE IF config.is_none
         THEN IF bool(path)
              THEN LET r == read_job_cluster_config(files, path, type)
                   IN IF r.raised THEN r ELSE Returned(SomeDict(r.value))
              ELSE Returned(NoneDict)
         ELSE Returned(config)

\* The position after statement i of _handle_results
after_statement(i) ==
    IF i = Len(_handle_results)
    THEN [pc |-> "return", hr |-> 0]
    ELSE [pc |-> "handle_results", hr |-> i + 1]

----------------------------------------------------------------------------
(* Actions: the steps of one call of NutterCLI.run *)

\* Entry of run up to the test of _is_a_test_pattern
ResolveClusterConf ==
    /\ pc = "run"
    /\ LET r == resolve_cluster_conf(fs, cluster_id, cluster_conf_path,
                                     cluster_type, cluster_config)
           p == _is_a_test_pattern(test_pattern)
       IN IF r.raised
          THEN /\ pc' = "except"
               /\ cluster_conf' = cluster_conf
          ELSE /\ cluster_conf' = r.value
               /\ pc' = IF p.raised THEN "except"
                        ELSE IF p.value THEN "run_tests" ELSE "run_test"
    /\ UNCHANGED <<argvars, hr, results, dispatch_calls, wait_calls, displayed,
                   reportvars, validate_calls, summary, exit_status>>

\* self._nutter.run_tests(pattern, cluster_id, cluster_conf, ...)
RunTests ==
    /\ pc = "run_tests"
    /\ dispatch_calls' = Append(dispatch_calls,
            [fn |-> "run_tests", cluster_id |-> cluster_id,
             cluster_conf |-> cluster_conf])
    /\ \E raises \in BOOLEAN, batch \in Batches(discovered) :
          IF raises
          THEN pc' = "except" /\ results' = results
          ELSE pc' = "events_wait" /\ results' = batch
    /\ UNCHANGED <<argvars, hr, cluster_conf, wait_calls, displayed,
                   reportvars, validate_calls, summary, exit_status>>

\* self._nutter.events_processor_wait() on the pattern path
EventsProcessorWait ==
    /\ pc = "events_wait"
    /\ wait_calls' = wait_calls + 1
    /\ pc' = "handle_results"
    /\ hr' = 1
    /\ UNCHANGED <<argvars, cluster_conf, results, dispatch_calls, displayed,
                   reportvars, validate_calls, summary, exit_status>>

\* self._nutter.run_test(test_pattern, cluster_id, timeout, poll_wait_time)
\* and the entry of _handle_results([result], ...)
RunTest ==
    /\ pc = "run_test"
    /\ dispatch_calls' = Append(dispatch_calls,
            [fn |-> "run_test", cluster_id |-> cluster_id,
             cluster_conf |-> NoneDict])
    /\ \E raises \in BOOLEAN, kind \in ResultKinds :
          IF raises
          THEN pc' = "except" /\ results' = results /\ hr' = hr
          ELSE /\ pc' = "handle_results"
               /\ results' = <<ExecutionResult(1, kind)>>
               /\ hr' = 1
    /\ UNCHANGED <<argvars, cluster_conf, wait_calls, displayed,
                   reportvars, validate_calls, summary, exit_status>>

\* self._display_test_results(results)
DisplayTestResults ==
    /\ pc = "handle_results"
    /\ _handle_results[hr] = "display"
    /\ displayed' = TRUE
    /\ pc' = after_statement(hr).pc
    /\ hr' = after_statement(hr).hr
    /\ UNCHANGED <<argvars, cluster_conf, results, dispatch_calls, wait_calls,
                   reportvars, validate_calls, summary, exit_status>>

\* report_man = self._get_report_writer_manager(junit_report, tags_report)
\* self._handle_reports(report_man, results)
HandleReports ==
    /\ pc = "handle_results"
    /\ _handle_results[hr] = "reports"
    /\ LET report_man == _get_report_writer_manager(junit_report, tags_report)
           e == _handle_reports(report_man, results)
       IN /\ parse_calls' = parse_calls + e.parse_calls
          /\ report_added' = report_added \o e.added
          /\ warnings' = warnings \o e.warnings
          /\ write_calls' = write_calls + e.write_calls
          /\ files_written' = files_written \cup e.files
          /\ report_calls' = report_calls + 1
    /\ pc' = after_statement(hr).pc
    /\ hr' = after_statement(hr).hr
    /\ UNCHANGED <<argvars, cluster_conf, results, dispatch_calls, wait_calls,
                   displayed, validate_calls, summary, exit_status>>

\* ExecutionResultsValidator().validate(results)
Validate ==
    /\ pc = "handle_results"
    /\ _handle_results[hr] = "validate"
    /\ validate_calls' = validate_calls + 1
    /\ LET v == validate(results)
       IN /\ summary' = v.value
          /\ IF v.raised
             THEN pc' = "except" /\ hr' = 0
             ELSE pc' = after_statement(hr).pc /\ hr' = after_statement(hr).hr
    /\ UNCHANGED <<argvars, cluster_conf, results, dispatch_calls, wait_calls,
                   displayed, reportvars, exit_status>>

\* run returns: the process ends with status 0
Return ==
    /\ pc = "return"
    /\ exit_status' = 0
    /\ pc' = "done"
    /\ UNCHANGED <<argvars, hr, cluster_conf, results, dispatch_calls,
                   wait_calls, displayed, reportvars, validate_calls, summary>>

\* except Exception as error: self._logger.fatal(error); exit(1)
HandleException ==
    /\ pc = "except"
    /\ exit_status' = 1
    /\ pc' = "done"
    /\ UNCHANGED <<argvars, hr, cluster_conf, results, dispatch_calls,
                   wait_calls, displayed, reportvars, validate_calls, summary>>

Next ==
    \/ ResolveClusterConf
    \/ RunTests
    \/ EventsProcessorWait
    \/ RunTest
    \/ DisplayTestResults
    \/ HandleReports
    \/ Validate
    \/ Return
    \/ HandleException

----------------------------------------------------------------------------
(* Initial states *)

\* The state of a process that has just entered run
InitRun ==
    /\ pc = "run"
    /\ hr = 0
    /\ cluster_conf = NoneDict
    /\ results = <<>>
    /\ dispatch_calls = <<>>
    /\ wait_calls = 0
    /\ displayed = FALSE
    /\ parse_calls = 0
    /\ report_added = <<>>
    /\ warnings = <<>>
    /\ write_calls = 0
    /\ files_written = {}
    /\ report_calls = 0
    /\ validate_calls = 0
    /\ summary = NoSummary
    /\ exit_status = -1

Chars == {"/", "t", "_", "x"}
StringsUpTo(n) == UNION {[1..k -> Chars] : k \in 0..n}

\* A single test ("x/t_x") and a pattern ("t_/x")
MainPatterns == {<<"x", "/", "t", "_", "x">>, <<"t", "_", "/", "x">>}

ClusterTypes == {None, "gpu", "cpu"}

NoOverlays == [t \in {} |-> EmptyDict]

\* A file system with a full config file, one without cluster_configs,
\* one without base_config, and a path that names no file
MainFS ==
    [path \in {"full.json", "base.json", "nobase.json", "missing.json"} |->
        CASE path = "full.json" ->
                ConfigFile(TRUE, [k \in {"a", "b"} |-> IF k = "a" THEN 1 ELSE 2],
                           TRUE, [t \in {"gpu"} |-> [k \in {"b"} |-> 3]])
          [] path = "base.json" ->
                ConfigFile(TRUE, [k \in {"a"} |-> 1], FALSE, NoOverlays)
          [] path = "nobase.json" ->
                ConfigFile(FALSE, EmptyDict, TRUE,
                           [t \in {"gpu"} |-> [k \in {"b"} |-> 3]])
          [] OTHER -> MissingFile]

Init ==
    /\ test_pattern \in MainPatterns
    /\ cluster_id \in {None, "c1"}
    /\ fs = MainFS
    /\ cluster_conf_path \in {None} \cup DOMAIN MainFS
    /\ cluster_type \in ClusterTypes
    /\ cluster_config \in {NoneDict, SomeDict(EmptyDict),
                           SomeDict([k \in {"a"} |-> 1])}
    /\ junit_report \in BOOLEAN
    /\ tags_report \in BOOLEAN
    /\ discovered \in 0..MaxTests
    /\ InitRun

Spec == Init /\ [][Next]_vars

\* Every config file over the bounded dictionaries, read with every type
ConfigFiles ==
    {MissingFile, ConfigFile(FALSE, EmptyDict, FALSE, NoOverlays)}
        \cup {ConfigFile(TRUE, base, FALSE, NoOverlays) : base \in Dicts}
        \cup {ConfigFile(TRUE, f[1], TRUE, f[2]) :
                f \in Dicts \X UNION {[T -> Dicts] : T \in SUBSET {"gpu"}}}

InitConfig ==
    /\ test_pattern \in MainPatterns
    /\ cluster_id = None
    /\ fs \in [{"cfg.json"} -> ConfigFiles]
    /\ cluster_conf_path = "cfg.json"
    /\ cluster_type \in ClusterTypes
    /\ cluster_config = NoneDict
    /\ junit_report = TRUE
    /\ tags_report = FALSE
    /\ discovered = 1
    /\ InitRun

SpecConfig == InitConfig /\ [][Next]_vars

\* Every test_pattern up to MaxPatternLen characters
InitPattern ==
    /\ test_pattern \in StringsUpTo(MaxPatternLen)
    /\ cluster_id \in {None, "c1"}
    /\ fs = MainFS
    /\ cluster_conf_path = None
    /\ cluster_type = None
    /\ cluster_config = NoneDict
    /\ junit_report = FALSE
    /\ tags_report = FALSE
    /\ discovered = 1
    /\ InitRun

SpecPattern == InitPattern /\ [][Next]_vars

----------------------------------------------------------------------------
(* Properties *)

AllPassed(rs) == \A i \in 1..Len(rs) : rs[i].outcome = "PASSED"

\* Some result has been displayed, reported or validated
ResultsHandled == displayed \/ report_calls > 0 \/ validate_calls > 0

\* No dispatch has been made and none can follow: the run is at its entry,
\* in the exception handler, or has exited
NothingDispatched ==
    /\ dispatch_calls = <<>>
    /\ ~ResultsHandled
    /\ pc \in {"run", "except", "done"}

NoSelector ==
    ~bool(cluster_conf_path) /\ ~bool(cluster_id) /\ ~bool_dict(cluster_config)

ConfPathMissing ==
    bool(cluster_conf_path) /\ ~fs[cluster_conf_path].exists

ConfPathWithoutBase ==
    /\ bool(cluster_conf_path)
    /\ fs[cluster_conf_path].exists
    /\ ~fs[cluster_conf_path].has_base

\* C1: the process exit status is zero only if every result of the batch is
\* PASSED; a batch with a result that is not PASSED ends the run with status
\* 1; and the status is set only at the process boundary, never by validate.
C1_ExitZeroOnlyIfAllPassed ==
    /\ (pc = "done" /\ exit_status = 0) => AllPassed(results)
    /\ (pc = "done" /\ ~AllPassed(results)) => exit_status = 1
    /\ (pc # "done") => exit_status = -1
    /\ (validate_calls > 0) =>
            /\ summary.total = Len(results)
            /\ (summary.passed = summary.total) = AllPassed(results)

C1_Witness ==
    /\ pc = "done"
    /\ exit_status = 1
    /\ validate_calls = 1
    /\ Len(results) = 2
    /\ results[1].outcome = "PASSED"
    /\ results[2].outcome = "TIMEDOUT"

C3_UnknownTypeIsConfigError ==
    (/\ cluster_config.is_none
     /\ bool(cluster_conf_path)
     /\ fs[cluster_conf_path].exists
     /\ fs[cluster_conf_path].has_base
     /\ DOMAIN fs[cluster_conf_path].base_config # {}
     /\ fs[cluster_conf_path].has_cluster_configs
     /\ bool(cluster_type)
     /\ cluster_type \notin DOMAIN fs[cluster_conf_path].cluster_configs) =>
        /\ cluster_conf.is_none
        /\ NothingDispatched
        /\ (pc = "done" => exit_status = 1)

\* C4: for a non-empty base_config and an overlay stored for the requested
\* type, the resolved config has exactly the keys of the two, with the
\* overlay's value for every overlay key and base_config's value for the rest.
C4_OverrideMerge ==
    LET f == fs[cluster_conf_path]
    IN (/\ pc # "run"
        /\ f.exists
        /\ f.has_base
        /\ DOMAIN f.base_config # {}
        /\ f.has_cluster_configs
        /\ cluster_type \in DOMAIN f.cluster_configs) =>
            /\ ~cluster_conf.is_none
            /\ LET c == cluster_conf.val
                   b == f.base_config
                   o == f.cluster_configs[cluster_type]
               IN /\ DOMAIN c = DOMAIN b \cup DOMAIN o
                  /\ \A k \in DOMAIN o : c[k] = o[k]
                  /\ \A k \in DOMAIN b \ DOMAIN o : c[k] = b[k]

C4_Witness ==
    /\ pc = "done"
    /\ cluster_type = "gpu"
    /\ fs[cluster_conf_path].exists
    /\ fs[cluster_conf_path].has_cluster_configs
    /\ fs[cluster_conf_path].base_config = [k \in {"a", "b"} |-> IF k = "a" THEN 1 ELSE 2]
    /\ "gpu" \in DOMAIN fs[cluster_conf_path].cluster_configs
    /\ fs[cluster_conf_path].cluster_configs["gpu"] = [k \in {"b"} |-> 3]
    /\ ~cluster_conf.is_none
    /\ cluster_conf.val = [k \in {"a", "b"} |-> IF k = "a" THEN 1 ELSE 3]

\* C5: in every dispatch call exactly one of the cluster id and the cluster
\* config handed to it is active (non-empty).
C5_ExactlyOneSelectorActive ==
    \A i \in 1..Len(dispatch_calls) :
        bool(dispatch_calls[i].cluster_id)
            # bool_dict(dispatch_calls[i].cluster_conf)

Occurrences(seq, x) == Cardinality({i \in 1..Len(seq) : seq[i] = x})
AddedUnder(path) ==
    Cardinality({i \in 1..Len(report_added) : report_added[i].notebook_path = path})

\* C6: with a report kind selected, once _handle_reports has returned every
\* result whose exit_output gives no test results is absent from the report
\* and named by exactly one warning, every other result is added exactly once
\* under its notebook path, and write has run once.
C6_ReportsSkipInvalidAndContinue ==
    (report_calls = 1 /\ (junit_report \/ tags_report)) =>
        /\ \A i \in 1..Len(results) :
              LET r == results[i]
              IN IF to_testresults(r.exit_output).is_none
                 THEN /\ Occurrences(warnings, r.notebook_path) = 1
                      /\ AddedUnder(r.notebook_path) = 0
                 ELSE /\ Occurrences(warnings, r.notebook_path) = 0
                      /\ AddedUnder(r.notebook_path) = 1
        /\ Len(warnings) + Len(report_added) = Len(results)
        /\ write_calls = 1
        /\ files_written # {}

C6_Witness ==
    /\ report_calls = 1
    /\ junit_report
    /\ Len(results) = 2
    /\ results[1].exit_output = "garbage"
    /\ results[2].exit_output = "payload"
    /\ warnings = <<results[1].notebook_path>>
    /\ Len(report_added) = 1
    /\ write_calls = 1

\* C7: with neither junit_report nor tags_report selected, no result is
\* parsed or added, no warning is printed, write is never called and no file
\* is written.
C7_NoReportKindIsNoOp ==
    (~junit_report /\ ~tags_report) =>
        /\ parse_calls = 0
        /\ report_added = <<>>
        /\ warnings = <<>>
        /\ write_calls = 0
        /\ files_written = {}

C7_Witness ==
    /\ report_calls = 1
    /\ ~junit_report
    /\ ~tags_report
    /\ Len(results) = 2
    /\ results[1].exit_output = "payload"
    /\ files_written = {}

\* C8: whenever a result has been displayed, reported or validated,
\* events_processor_wait has been called and has returned.
C8_WaitBeforeHandling ==
    ResultsHandled => wait_calls >= 1

\* C9 as stated: no result is added to a report writer and no report file is
\* written before validate has been invoked.
C9_ValidateBeforeReports ==
    (report_added # <<>> \/ write_calls > 0 \/ files_written # {}) =>
        validate_calls >= 1

\* C9 amended: validate is invoked only after the results were displayed and
\* _handle_reports has returned, so every add_result and the report write
\* come before validation.
C9_ReportsBeforeValidate ==
    (validate_calls >= 1) => (displayed /\ report_calls = 1)

C9_Witness ==
    /\ validate_calls = 1
    /\ report_calls = 1
    /\ write_calls = 1
    /\ report_added # <<>>
    /\ files_written # {}

\* The part of the pattern after its last "/" begins with the test prefix
LastSegmentIsTestName(pattern) ==
    \E k \in 0..Len(pattern) :
        /\ k = 0 \/ pattern[k] = "/"
        /\ \A j \in (k + 1)..Len(pattern) : pattern[j] # "/"
        /\ Len(pattern) - k >= 2
        /\ pattern[k + 1] = "t"
        /\ pattern[k + 2] = "_"

\* The cluster selector resolution of run raises nothing
SelectorResolves ==
    /\ ~NoSelector
    /\ ~(cluster_config.is_none /\ (ConfPathMissing \/ ConfPathWithoutBase))

\* C10: a run that passes selector resolution makes exactly one dispatch
\* call, run_test when the last "/"-separated segment of test_pattern is a
\* valid test name and run_tests otherwise; no run makes two; and
\* _is_a_test_pattern returns a boolean for the pattern.
C10_ExactlyOneDispatchByLastSegment ==
    /\ Len(dispatch_calls) <= 1
    /\ (SelectorResolves /\ pc \notin {"run", "run_tests", "run_test"}) =>
            /\ Len(dispatch_calls) = 1
            /\ dispatch_calls[1].fn =
                  IF LastSegmentIsTestName(test_pattern)
                  THEN "run_test" ELSE "run_tests"
    /\ ~_is_a_test_pattern(test_pattern).raised
    /\ _is_a_test_pattern(test_pattern).value \in BOOLEAN

C10_Witness ==
    /\ pc = "done"
    /\ test_pattern = <<"t", "_", "/", "t", "_">>
    /\ Len(dispatch_calls) = 1
    /\ dispatch_calls[1].fn = "run_test"
====
